---- MODULE Spec2Model ----
(***************************************************************************)
(* A model of the CHIP-8 interpreter of src/Chip8/chip8.c: the machine     *)
(* state chip8_t, chip8_init, chip8_load_rom, chip8_set_key, chip8_step    *)
(* and the 35 opcode handlers, with the driver of src/Chip8_Solution/main.c*)
(* reduced to "init, load one image, then step and deliver keys".          *)
(***************************************************************************)
EXTENDS Integers, Sequences, FiniteSets, TLC

VARIABLES
    chip,      \* the chip8_t instance (main.c:12), plus the ghost field ub
    phase,     \* where main() is: "init" (before load), "run", "halt" (load failed)
    opcode,    \* the word fetched by the last chip8_step (-1 before the first)
    beep,      \* whether the last chip8_step printed BEEP!
    unknown,   \* whether the last chip8_step printed "Unknown instruction"
    file       \* the bytes of the file the last chip8_load_rom read (<<>> before)

vars == <<chip, phase, opcode, beep, unknown, file>>

----------------------------------------------------------------------------
(* Program constants of chip8.h *)

CHIP8_MEM_SIZE == 4096
CHIP8_NUM_REGS == 16
CHIP8_STACK_SIZE == 16
CHIP8_DISPLAY_WIDTH == 64
CHIP8_DISPLAY_HEIGHT == 32
CHIP8_PROGRAM_OFFSET == 512
CHIP8_NUM_KEYS == 16

DisplaySize == CHIP8_DISPLAY_WIDTH * CHIP8_DISPLAY_HEIGHT

Byte == 0..255

----------------------------------------------------------------------------
(* C integer arithmetic *)

U8(n) == n % 256
U16(n) == n % 65536

RECURSIVE BitOp(_, _, _, _)
\* bitwise combination of the low n bits of a and b; op is "and", "or", "xor"
BitOp(op, a, b, n) ==
    IF n = 0 THEN 0
    ELSE LET x == a % 2
             y == b % 2
             r == CASE op = "and" -> IF x = 1 /\ y = 1 THEN 1 ELSE 0
                    [] op = "or"  -> IF x = 1 \/ y = 1 THEN 1 ELSE 0
                    [] OTHER      -> IF x # y THEN 1 ELSE 0
         IN  r + 2 * BitOp(op, a \div 2, b \div 2, n - 1)

BitAnd(a, b) == BitOp("and", a, b, 16)
BitOr(a, b)  == BitOp("or", a, b, 16)
BitXor(a, b) == BitOp("xor", a, b, 16)

\* 2^n for the shifts of the decoder and of the sprite mask
Pow2(n) == CASE n = 0 -> 1 [] n = 1 -> 2 [] n = 2 -> 4 [] n = 3 -> 8
             [] n = 4 -> 16 [] n = 5 -> 32 [] n = 6 -> 64 [] n = 7 -> 128
             [] OTHER -> 256

----------------------------------------------------------------------------
(* Nondeterminism of one step: the byte rand() yields, and what an access  *)
(* outside an array yields (undefined behaviour in C).                     *)

RndBytes == {0, 85, 255}
OobBytes == {0, 1, 255}

\* rnd: rand() & 0xFF; oob: the byte found outside an array;
\* alias: whether a store past stack[15] lands on the sp field that follows it;
\* k: which out-of-range display cell read by a draw is the first to hold 1
\*    (0: none does)
Oracle(rnd, oob, alias, k) == [rnd |-> rnd, oob |-> oob, alias |-> alias, k |-> k]
NoOracle == Oracle(0, 0, FALSE, 0)

----------------------------------------------------------------------------
(* The machine state and its lifecycle *)

Zeros(n) == [a \in 0..(n - 1) |-> 0]

\* the global chip8_t of main.c, zero-initialised as every C global is
ZeroChip ==
    [mem |-> Zeros(CHIP8_MEM_SIZE), V |-> Zeros(CHIP8_NUM_REGS), I |-> 0, pc |-> 0,
     delay_timer |-> 0, sound_timer |-> 0, stack |-> Zeros(CHIP8_STACK_SIZE),
     sp |-> 0, keypad |-> Zeros(CHIP8_NUM_KEYS), display |-> Zeros(DisplaySize),
     ub |-> FALSE]

\* chip8_init without the memset of the display
chip8_init_KeepsDisplay(c) ==
    [c EXCEPT !.mem = Zeros(CHIP8_MEM_SIZE),
              !.V = Zeros(CHIP8_NUM_REGS),
              !.pc = CHIP8_PROGRAM_OFFSET,
              !.sp = 0,
              !.keypad = Zeros(CHIP8_NUM_KEYS)]

chip8_init(c) ==
    [c EXCEPT !.mem = Zeros(CHIP8_MEM_SIZE),
              !.V = Zeros(CHIP8_NUM_REGS),
              !.pc = CHIP8_PROGRAM_OFFSET,
              !.sp = 0,
              !.keypad = Zeros(CHIP8_NUM_KEYS),
              !.display = Zeros(DisplaySize)]

\* the size test rejecting an image that fills memory exactly
RomFits_OffByOne(rom) == Len(rom) < CHIP8_MEM_SIZE - CHIP8_PROGRAM_OFFSET

\* the size test of chip8_load_rom
RomFits(rom) == ~(Len(rom) > CHIP8_MEM_SIZE - CHIP8_PROGRAM_OFFSET)

\* chip8_load_rom clearing program memory above the image it copies
chip8_load_rom_ClearsRest(c, rom) ==
    IF ~RomFits(rom) THEN c
    ELSE [c EXCEPT !.mem =
            [a \in 0..(CHIP8_MEM_SIZE - 1) |->
                IF a >= CHIP8_PROGRAM_OFFSET /\ a < CHIP8_PROGRAM_OFFSET + Len(rom)
                THEN rom[a - CHIP8_PROGRAM_OFFSET + 1]
                ELSE IF a >= CHIP8_PROGRAM_OFFSET THEN 0 ELSE c.mem[a]]]

\* chip8_load_rom on a file holding the byte sequence rom: the machine after it
chip8_load_rom(c, rom) ==
    IF ~RomFits(rom) THEN c
    ELSE [c EXCEPT !.mem =
            [a \in 0..(CHIP8_MEM_SIZE - 1) |->
                IF a >= CHIP8_PROGRAM_OFFSET /\ a < CHIP8_PROGRAM_OFFSET + Len(rom)
                THEN rom[a - CHIP8_PROGRAM_OFFSET + 1]
                ELSE c.mem[a]]]

\* chip8_set_key without the upper bound of its range test: keypad[16] is
\* the byte that follows the keypad in chip8_t, display[0]
chip8_set_key_NoUpperBound(c, key, state) ==
    IF key >= 0 /\ key <= 15
    THEN [c EXCEPT !.keypad[key] = state]
    ELSE IF key = 16 THEN [c EXCEPT !.display[0] = state] ELSE c

chip8_set_key(c, key, state) ==
    IF key >= 0 /\ key <= 15
    THEN [c EXCEPT !.keypad[key] = state]
    ELSE c

----------------------------------------------------------------------------
(* Array accesses. An index outside the array is undefined behaviour: a    *)
(* read yields the oracle's byte, a write lands outside the modelled       *)
(* fields, and the ghost field ub records that it happened.                *)

MemOk(a) == a >= 0 /\ a < CHIP8_MEM_SIZE
MemRead(c, a, orc) == IF MemOk(a) THEN c.mem[a] ELSE orc.oob
MemWrite(c, a, v) ==
    IF MemOk(a) THEN [c EXCEPT !.mem[a] = v] ELSE [c EXCEPT !.ub = TRUE]

AdvancePc(c, n) == [c EXCEPT !.pc = U16(c.pc + n)]

----------------------------------------------------------------------------
(* Opcode handlers *)

\* clear-screen that clears the first row only
chip8_CLS_FirstRowOnly(c) ==
    AdvancePc([c EXCEPT !.display =
                  [b \in 0..(DisplaySize - 1) |->
                      IF b < CHIP8_DISPLAY_WIDTH THEN 0 ELSE c.display[b]]], 2)

chip8_CLS(c) == AdvancePc([c EXCEPT !.display = Zeros(DisplaySize)], 2)

\* RET that resumes at the popped address itself, without pc += 2
chip8_RET_NoAdvance(c, orc) ==
    LET sp1 == U16(c.sp - 1)
        ok  == sp1 < CHIP8_STACK_SIZE
        top == IF ok THEN c.stack[sp1] ELSE orc.oob * 256 + orc.oob
    IN  [c EXCEPT !.sp = sp1, !.pc = top, !.ub = c.ub \/ ~ok]

\* pc = stack[--sp]; pc += 2
chip8_RET(c, orc) ==
    LET sp1 == U16(c.sp - 1)
        ok  == sp1 < CHIP8_STACK_SIZE
        top == IF ok THEN c.stack[sp1] ELSE orc.oob * 256 + orc.oob
    IN  AdvancePc([c EXCEPT !.sp = sp1, !.pc = top, !.ub = c.ub \/ ~ok], 2)

\* a jump that rounds its target down to an instruction boundary
chip8_JP_addr_Aligned(c, addr) == [c EXCEPT !.pc = 2 * (addr \div 2)]

chip8_JP_addr(c, addr) == [c EXCEPT !.pc = addr]

\* stack[sp++] = pc; pc = addr
chip8_CALL_addr(c, addr, orc) ==
    IF c.sp < CHIP8_STACK_SIZE
    THEN [c EXCEPT !.stack[c.sp] = c.pc, !.sp = U16(c.sp + 1), !.pc = addr]
    ELSE [c EXCEPT !.sp = IF orc.alias /\ c.sp = CHIP8_STACK_SIZE
                          THEN c.pc ELSE U16(c.sp + 1),
                   !.pc = addr, !.ub = TRUE]

Skip(c, cond) == IF cond THEN AdvancePc(c, 4) ELSE AdvancePc(c, 2)

\* a skip that is also taken while key 1 is down
chip8_SE_Vx_byte_ReadsKey(c, x, kk) == Skip(c, c.V[x] = kk \/ c.keypad[1] # 0)

chip8_SE_Vx_byte(c, x, kk) == Skip(c, c.V[x] = kk)
chip8_SNE_Vx_byte(c, x, kk) == Skip(c, c.V[x] # kk)
chip8_SE_Vx_Vy(c, x, y) == Skip(c, c.V[x] = c.V[y])

chip8_LD_Vx_byte(c, x, kk) == AdvancePc([c EXCEPT !.V[x] = kk], 2)
\* add-immediate that sets VF to the carry as 8xy4 does
chip8_ADD_Vx_byte_SetsCarry(c, x, kk) ==
    LET c1 == [c EXCEPT !.V[15] = IF c.V[x] + kk > 255 THEN 1 ELSE 0]
    IN  AdvancePc([c1 EXCEPT !.V[x] = U8(c.V[x] + kk)], 2)

chip8_ADD_Vx_byte(c, x, kk) == AdvancePc([c EXCEPT !.V[x] = U8(c.V[x] + kk)], 2)
chip8_LD_Vx_Vy(c, x, y) == AdvancePc([c EXCEPT !.V[x] = c.V[y]], 2)
chip8_OR_Vx_Vy(c, x, y) == AdvancePc([c EXCEPT !.V[x] = BitOr(c.V[x], c.V[y])], 2)
chip8_AND_Vx_Vy(c, x, y) == AdvancePc([c EXCEPT !.V[x] = BitAnd(c.V[x], c.V[y])], 2)
chip8_XOR_Vx_Vy(c, x, y) == AdvancePc([c EXCEPT !.V[x] = BitXor(c.V[x], c.V[y])], 2)

\* ADD with the carry taken from sum >= 0xFF instead of sum > 0xFF
chip8_ADD_Vx_Vy_CarryOffByOne(c, x, y) ==
    LET sum == c.V[x] + c.V[y]
        c1  == [c EXCEPT !.V[15] = IF sum >= 255 THEN 1 ELSE 0]
        c2  == [c1 EXCEPT !.V[x] = U8(sum)]
    IN  AdvancePc(c2, 2)

\* sum is taken first; VF is written, then Vx
chip8_ADD_Vx_Vy(c, x, y) ==
    LET sum == c.V[x] + c.V[y]
        c1  == [c EXCEPT !.V[15] = IF sum > 255 THEN 1 ELSE 0]
        c2  == [c1 EXCEPT !.V[x] = U8(sum)]
    IN  AdvancePc(c2, 2)

\* VF is written first; the subtraction then reads the registers again
chip8_SUB_Vx_Vy(c, x, y) ==
    LET c1 == [c EXCEPT !.V[15] = IF c.V[x] >= c.V[y] THEN 1 ELSE 0]
        c2 == [c1 EXCEPT !.V[x] = U8(c1.V[x] - c1.V[y])]
    IN  AdvancePc(c2, 2)

\* SHR with the flag taken after the shift instead of before it
chip8_SHR_Vx_FlagAfterShift(c, x) ==
    LET c1 == [c EXCEPT !.V[x] = c.V[x] \div 2]
        c2 == [c1 EXCEPT !.V[15] = c1.V[x] % 2]
    IN  AdvancePc(c2, 2)

chip8_SHR_Vx(c, x) ==
    LET c1 == [c EXCEPT !.V[15] = c.V[x] % 2]
        c2 == [c1 EXCEPT !.V[x] = c1.V[x] \div 2]
    IN  AdvancePc(c2, 2)

chip8_SUBN_Vx_Vy(c, x, y) ==
    LET c1 == [c EXCEPT !.V[15] = IF c.V[y] > c.V[x] THEN 0 ELSE 1]
        c2 == [c1 EXCEPT !.V[x] = U8(c1.V[y] - c1.V[x])]
    IN  AdvancePc(c2, 2)

chip8_SHL_Vx(c, x) ==
    LET c1 == [c EXCEPT !.V[15] = c.V[x] \div 128]
        c2 == [c1 EXCEPT !.V[x] = U8(c1.V[x] * 2)]
    IN  AdvancePc(c2, 2)

chip8_SNE_Vx_Vy(c, x, y) == Skip(c, c.V[x] # c.V[y])

\* LD I without pc += 2
chip8_LD_I_addr_NoAdvance(c, addr) == [c EXCEPT !.I = addr]

chip8_LD_I_addr(c, addr) == AdvancePc([c EXCEPT !.I = addr], 2)

chip8_JP_V0_addr(c, addr) == [c EXCEPT !.pc = U16(c.V[0] + addr)]

chip8_RND_Vx_byte(c, x, kk, orc) ==
    AdvancePc([c EXCEPT !.V[x] = BitAnd(orc.rnd, kk)], 2)

\* whether bit (0x80 >> j) of the sprite byte is set
SpriteBit(pixel, j) == (pixel \div Pow2(7 - j)) % 2 = 1

\* buffer_index of chip8_DRW_Vx_Vy_nibble, from the registers as they are now
BufferIndex(c, x, y, i, j) ==
    U16((c.V[x] + j) + ((c.V[y] + i) * CHIP8_DISPLAY_WIDTH))

DisplayOk(b) == b >= 0 /\ b < DisplaySize

\* one pass of the inner loop body, for row i and column j; n counts the
\* reads of display cells outside the array made so far
DrawPixel(c, x, y, i, j, n, orc) ==
    LET pixel == MemRead(c, c.I + i, orc)
        memub == ~MemOk(c.I + i)
        b     == BufferIndex(c, x, y, i, j)
    IN  IF ~SpriteBit(pixel, j)
        THEN [c |-> [c EXCEPT !.ub = c.ub \/ memub], n |-> n]
        ELSE IF DisplayOk(b)
        THEN LET c1 == IF c.display[b] = 1 THEN [c EXCEPT !.V[15] = 1] ELSE c
             IN  [c |-> [c1 EXCEPT !.display[b] = BitXor(c1.display[b], 1),
                                   !.ub = c.ub \/ memub],
                  n |-> n]
        ELSE LET c1 == IF n + 1 = orc.k THEN [c EXCEPT !.V[15] = 1] ELSE c
             IN  [c |-> [c1 EXCEPT !.ub = TRUE], n |-> n + 1]

RECURSIVE DrawRow(_, _, _, _, _, _, _)
\* the inner loop for row i, from column j on
DrawRow(c, x, y, i, j, n, orc) ==
    IF j >= 8 THEN [c |-> c, n |-> n]
    ELSE LET r == DrawPixel(c, x, y, i, j, n, orc)
         IN  DrawRow(r.c, x, y, i, j + 1, r.n, orc)

RECURSIVE DrawLoop(_, _, _, _, _, _, _)
\* the outer loop, from row i on
DrawLoop(c, x, y, height, i, n, orc) ==
    IF i >= height THEN [c |-> c, n |-> n]
    ELSE LET r == DrawRow(c, x, y, i, 0, n, orc)
         IN  IF r.n >= n THEN DrawLoop(r.c, x, y, height, i + 1, r.n, orc)
             ELSE r

chip8_DRW_Vx_Vy_nibble(c, x, y, height, orc) ==
    LET c0 == [c EXCEPT !.V[15] = 0]
    IN  AdvancePc(DrawLoop(c0, x, y, height, 0, 0, orc).c, 2)

\* how many display cells outside the array the draw reads when none holds 1
DrawOobReads(c, x, y, height) ==
    DrawLoop([c EXCEPT !.V[15] = 0], x, y, height, 0, 0, NoOracle).n

KeyOk(k) == k >= 0 /\ k < CHIP8_NUM_KEYS
KeyRead(c, k, orc) == IF KeyOk(k) THEN c.keypad[k] ELSE orc.oob

chip8_SKP_Vx(c, x, orc) ==
    Skip([c EXCEPT !.ub = c.ub \/ ~KeyOk(c.V[x])], KeyRead(c, c.V[x], orc) # 0)

\* SKNP that skips while the key is down, as SKP does
chip8_SKNP_Vx_SkipsWhenPressed(c, x, orc) ==
    Skip([c EXCEPT !.ub = c.ub \/ ~KeyOk(c.V[x])], KeyRead(c, c.V[x], orc) # 0)

chip8_SKNP_Vx(c, x, orc) ==
    Skip([c EXCEPT !.ub = c.ub \/ ~KeyOk(c.V[x])], KeyRead(c, c.V[x], orc) = 0)

chip8_LD_Vx_DT(c, x) == AdvancePc([c EXCEPT !.V[x] = c.delay_timer], 2)

\* key-wait that moves on when no key is down
chip8_LD_Vx_K_NoWait(c, x) ==
    LET pressed == {i \in 0..15 : c.keypad[i] # 0}
    IN  IF pressed = {} THEN AdvancePc(c, 2)
        ELSE LET i == CHOOSE k \in pressed : \A m \in pressed : k <= m
             IN  AdvancePc([c EXCEPT !.V[x] = i], 2)

\* key-wait that releases the key it reports
chip8_LD_Vx_K_ConsumesKey(c, x) ==
    LET pressed == {i \in 0..15 : c.keypad[i] # 0}
    IN  IF pressed = {} THEN c
        ELSE LET i == CHOOSE k \in pressed : \A m \in pressed : k <= m
             IN  AdvancePc([c EXCEPT !.V[x] = i, !.keypad[i] = 0], 2)

\* key-wait that reports the highest pressed key
chip8_LD_Vx_K_HighestKey(c, x) ==
    LET pressed == {i \in 0..15 : c.keypad[i] # 0}
    IN  IF pressed = {} THEN c
        ELSE LET i == CHOOSE k \in pressed : \A m \in pressed : k >= m
             IN  AdvancePc([c EXCEPT !.V[x] = i], 2)

\* the first pressed key in index order, if any
chip8_LD_Vx_K(c, x) ==
    LET pressed == {i \in 0..15 : c.keypad[i] # 0}
    IN  IF pressed = {} THEN c
        ELSE LET i == CHOOSE k \in pressed : \A m \in pressed : k <= m
             IN  AdvancePc([c EXCEPT !.V[x] = i], 2)

chip8_LD_DT_Vx(c, x) == AdvancePc([c EXCEPT !.delay_timer = c.V[x]], 2)
chip8_LD_ST_Vx(c, x) == AdvancePc([c EXCEPT !.sound_timer = c.V[x]], 2)
chip8_ADD_I_Vx(c, x) == AdvancePc([c EXCEPT !.I = U16(c.I + c.V[x])], 2)

\* the glyph address taken from a font table at 0x50
chip8_LD_F_Vx_FontBase(c, x) == AdvancePc([c EXCEPT !.I = U16(80 + c.V[x] * 5)], 2)

chip8_LD_F_Vx(c, x) == AdvancePc([c EXCEPT !.I = U16(c.V[x] * 5)], 2)

\* the BCD store with the tens digit not reduced mod 10
chip8_LD_B_Vx_TensNotReduced(c, x) ==
    LET value == c.V[x]
        c1 == MemWrite(c, c.I, value \div 100)
        c2 == MemWrite(c1, c.I + 1, value \div 10)
        c3 == MemWrite(c2, c.I + 2, value % 10)
    IN  AdvancePc(c3, 2)

chip8_LD_B_Vx(c, x) ==
    LET value == c.V[x]
        c1 == MemWrite(c, c.I, value \div 100)
        c2 == MemWrite(c1, c.I + 1, (value \div 10) % 10)
        c3 == MemWrite(c2, c.I + 2, value % 10)
    IN  AdvancePc(c3, 2)

RECURSIVE StoreRegs(_, _, _)
\* the loop of chip8_LD_I_Vx from index i on
StoreRegs(c, x, i) ==
    IF i > x THEN c ELSE StoreRegs(MemWrite(c, c.I + i, c.V[i]), x, i + 1)

\* the register store that leaves I where it was
chip8_LD_I_Vx_KeepsI(c, x) ==
    LET c1 == StoreRegs(c, x, 0)
    IN  AdvancePc(c1, 2)

chip8_LD_I_Vx(c, x) ==
    LET c1 == StoreRegs(c, x, 0)
    IN  AdvancePc([c1 EXCEPT !.I = U16(c1.I + x + 1)], 2)

RECURSIVE LoadRegs(_, _, _, _)
\* the loop of chip8_LD_Vx_I from index i on
LoadRegs(c, x, i, orc) ==
    IF i > x THEN c
    ELSE LoadRegs([c EXCEPT !.V[i] = MemRead(c, c.I + i, orc),
                            !.ub = c.ub \/ ~MemOk(c.I + i)], x, i + 1, orc)

\* the register load that stops one register short of Vx
chip8_LD_Vx_I_ExcludesVx(c, x, orc) ==
    LET c1 == LoadRegs(c, x - 1, 0, orc)
    IN  AdvancePc([c1 EXCEPT !.I = U16(c1.I + x + 1)], 2)

chip8_LD_Vx_I(c, x, orc) ==
    LET c1 == LoadRegs(c, x, 0, orc)
    IN  AdvancePc([c1 EXCEPT !.I = U16(c1.I + x + 1)], 2)

----------------------------------------------------------------------------
(* chip8_step: fetch, decode and execute, timers *)

\* opcode = (mem[pc] << 8) | mem[pc + 1]
Fetch(c, orc) == MemRead(c, c.pc, orc) * 256 + MemRead(c, c.pc + 1, orc)
FetchOk(c) == MemOk(c.pc) /\ MemOk(c.pc + 1)

OpClass(op) == op \div 4096        \* (opcode & 0xF000) >> 12
OpX(op) == (op \div 256) % 16      \* (opcode & 0x0F00) >> 8
OpY(op) == (op \div 16) % 16       \* (opcode & 0x00F0) >> 4
OpN(op) == op % 16                 \* opcode & 0x000F
OpKK(op) == op % 256               \* opcode & 0x00FF
OpNNN(op) == op % 4096             \* opcode & 0x0FFF

\* whether the switch of chip8_step reaches a handler for op
Known(op) ==
    CASE OpClass(op) = 0  -> OpKK(op) \in {224, 238}
      [] OpClass(op) = 8  -> OpN(op) \in {0, 1, 2, 3, 4, 5, 6, 7, 14}
      [] OpClass(op) = 14 -> OpKK(op) \in {158, 161}
      [] OpClass(op) = 15 -> OpKK(op) \in {7, 10, 21, 24, 30, 41, 51, 85, 101}
      [] OTHER -> TRUE

\* an unknown word skipped like an executed one
UnknownInstruction_Skips(c) == AdvancePc(c, 2)

\* a default: branch of the switch: the word is printed and nothing is done
UnknownInstruction(c) == c

\* the switch of chip8_step
Dispatch(c, op, orc) ==
    LET x == OpX(op)
        y == OpY(op)
        kk == OpKK(op)
        nnn == OpNNN(op)
    IN  CASE OpClass(op) = 0 ->
               (CASE kk = 224 -> chip8_CLS(c)
                  [] kk = 238 -> chip8_RET(c, orc)
                  [] OTHER -> UnknownInstruction(c))
          [] OpClass(op) = 1 -> chip8_JP_addr(c, nnn)
          [] OpClass(op) = 2 -> chip8_CALL_addr(c, nnn, orc)
          [] OpClass(op) = 3 -> chip8_SE_Vx_byte(c, x, kk)
          [] OpClass(op) = 4 -> chip8_SNE_Vx_byte(c, x, kk)
          [] OpClass(op) = 5 -> chip8_SE_Vx_Vy(c, x, y)
          [] OpClass(op) = 6 -> chip8_LD_Vx_byte(c, x, kk)
          [] OpClass(op) = 7 -> chip8_ADD_Vx_byte(c, x, kk)
          [] OpClass(op) = 8 ->
               (CASE OpN(op) = 0 -> chip8_LD_Vx_Vy(c, x, y)
                  [] OpN(op) = 1 -> chip8_OR_Vx_Vy(c, x, y)
                  [] OpN(op) = 2 -> chip8_AND_Vx_Vy(c, x, y)
                  [] OpN(op) = 3 -> chip8_XOR_Vx_Vy(c, x, y)
                  [] OpN(op) = 4 -> chip8_ADD_Vx_Vy(c, x, y)
                  [] OpN(op) = 5 -> chip8_SUB_Vx_Vy(c, x, y)
                  [] OpN(op) = 6 -> chip8_SHR_Vx(c, x)
                  [] OpN(op) = 7 -> chip8_SUBN_Vx_Vy(c, x, y)
                  [] OpN(op) = 14 -> chip8_SHL_Vx(c, x)
                  [] OTHER -> UnknownInstruction(c))
          [] OpClass(op) = 9 -> chip8_SNE_Vx_Vy(c, x, y)
          [] OpClass(op) = 10 -> chip8_LD_I_addr(c, nnn)
          [] OpClass(op) = 11 -> chip8_JP_V0_addr(c, nnn)
          [] OpClass(op) = 12 -> chip8_RND_Vx_byte(c, x, kk, orc)
          [] OpClass(op) = 13 -> chip8_DRW_Vx_Vy_nibble(c, x, y, OpN(op), orc)
          [] OpClass(op) = 14 ->
               (CASE kk = 158 -> chip8_SKP_Vx(c, x, orc)
                  [] kk = 161 -> chip8_SKNP_Vx(c, x, orc)
                  [] OTHER -> UnknownInstruction(c))
          [] OTHER ->
               (CASE kk = 7 -> chip8_LD_Vx_DT(c, x)
                  [] kk = 10 -> chip8_LD_Vx_K(c, x)
                  [] kk = 21 -> chip8_LD_DT_Vx(c, x)
                  [] kk = 24 -> chip8_LD_ST_Vx(c, x)
                  [] kk = 30 -> chip8_ADD_I_Vx(c, x)
                  [] kk = 41 -> chip8_LD_F_Vx(c, x)
                  [] kk = 51 -> chip8_LD_B_Vx(c, x)
                  [] kk = 85 -> chip8_LD_I_Vx(c, x)
                  [] kk = 101 -> chip8_LD_Vx_I(c, x, orc)
                  [] OTHER -> UnknownInstruction(c))

\* the timers decremented without the test for zero
TickTimers_Wraps(c) ==
    [c EXCEPT !.delay_timer = U8(c.delay_timer + 255),
              !.sound_timer = U8(c.sound_timer + 255)]

\* the two timer blocks that end chip8_step
TickTimers(c) ==
    [c EXCEPT !.delay_timer = IF c.delay_timer > 0 THEN c.delay_timer - 1 ELSE 0,
              !.sound_timer = IF c.sound_timer > 0 THEN c.sound_timer - 1 ELSE 0]

\* BEEP! printed in every cycle that decrements the sound timer
Beeps_WhileSounding(c) == c.sound_timer > 0

\* whether the sound timer block prints BEEP!
Beeps(c) == c.sound_timer > 0 /\ c.sound_timer - 1 = 0

\* a step that ticks the timers before it dispatches
chip8_step_TicksFirst(c, orc) ==
    LET op == Fetch(c, orc)
        c0 == [c EXCEPT !.ub = c.ub \/ ~FetchOk(c)]
        c1 == Dispatch(TickTimers(c0), op, orc)
    IN  [chip |-> c1, opcode |-> op,
         beep |-> Beeps(c0), unknown |-> ~Known(op)]

\* one call of chip8_step: the machine after it, the word it fetched and
\* what it printed
chip8_step(c, orc) ==
    LET op == Fetch(c, orc)
        c0 == [c EXCEPT !.ub = c.ub \/ ~FetchOk(c)]
        c1 == Dispatch(c0, op, orc)
    IN  [chip |-> TickTimers(c1), opcode |-> op,
         beep |-> Beeps(c1), unknown |-> ~Known(op)]

----------------------------------------------------------------------------
(* The driver: main() initialises the machine, loads one image and, when   *)
(* the load succeeded, calls chip8_step from display() for ever, with      *)
(* key_down and key_up delivering keys in between.                         *)

Init ==
    /\ chip = chip8_init(ZeroChip)
    /\ phase = "init"
    /\ opcode = -1
    /\ beep = FALSE
    /\ unknown = FALSE
    /\ file = <<>>

\* main() loading one of the images of roms
LoadRom(roms) ==
    /\ phase = "init"
    /\ \E rom \in roms :
        /\ chip' = chip8_load_rom(chip, rom)
        /\ phase' = IF RomFits(rom) THEN "run" ELSE "halt"
        /\ file' = rom
    /\ UNCHANGED <<opcode, beep, unknown>>

\* the oracles that can make a difference to the step from c: rand() matters
\* to Cxkk alone, the others only once an access leaves its array (a draw
\* whose sprite rows are all in memory reads no byte outside an array but
\* display cells)
Oracles(c) ==
    LET op == Fetch(c, NoOracle)
        faulty == chip8_step(c, NoOracle).chip.ub
        isDraw == FetchOk(c) /\ OpClass(op) = 13
        rowsOk == \A i \in 0..(OpN(op) - 1) : MemOk(c.I + i)
        rnds == IF ~FetchOk(c) \/ OpClass(op) = 12 THEN RndBytes ELSE {0}
        oobs == IF faulty /\ ~(isDraw /\ rowsOk) THEN OobBytes ELSE {0}
        aliases == IF faulty /\ (~FetchOk(c) \/ OpClass(op) = 2)
                   THEN BOOLEAN ELSE {FALSE}
        ks == IF faulty /\ isDraw
              THEN 0..DrawOobReads(c, OpX(op), OpY(op), OpN(op)) ELSE {0}
    IN  {Oracle(r, o, a, k) : r \in rnds, o \in oobs, a \in aliases, k \in ks}

\* display() calling chip8_step once; nothing is modelled past undefined behaviour
Step ==
    /\ phase = "run"
    /\ ~chip.ub
    /\ \E orc \in Oracles(chip) :
        LET r == chip8_step(chip, orc)
        IN  /\ chip' = r.chip
            /\ opcode' = r.opcode
            /\ beep' = r.beep
            /\ unknown' = r.unknown
    /\ UNCHANGED <<phase, file>>

\* key_down / key_up delivering one key to chip8_set_key
SetKey(keys) ==
    /\ phase = "run"
    /\ ~chip.ub
    /\ \E key \in keys, state \in {0, 1} :
        chip' = chip8_set_key(chip, key, state)
    /\ UNCHANGED <<phase, opcode, beep, unknown, file>>

\* a client calling chip8_load_rom on the machine it has been running, with
\* one of the images of roms
Reload(roms) ==
    /\ phase = "run"
    /\ ~chip.ub
    /\ \E rom \in roms :
        /\ chip' = chip8_load_rom(chip, rom)
        /\ file' = rom
    /\ UNCHANGED <<phase, opcode, beep, unknown>>

\* a client calling chip8_init on the machine it has been running, to load
\* an image anew
Reset ==
    /\ phase = "run"
    /\ ~chip.ub
    /\ chip' = chip8_init(chip)
    /\ phase' = "init"
    /\ UNCHANGED <<opcode, beep, unknown, file>>

----------------------------------------------------------------------------
(* Program images *)

\* the two bytes of an instruction word, high byte first
W(op) == <<op \div 256, op % 256>>

RECURSIVE Prog(_)
\* the image holding the words of ws in order
Prog(ws) == IF ws = <<>> THEN <<>> ELSE W(Head(ws)) \o Prog(Tail(ws))

OpXKK(class, x, kk) == class * 4096 + x * 256 + kk
OpXYN(class, x, y, n) == class * 4096 + x * 256 + y * 16 + n
OpAddr(class, nnn) == class * 4096 + nnn

\* the address of word number i (from 0) of an image
At(i) == CHIP8_PROGRAM_OFFSET + 2 * i

\* a jump to itself, as word number i: the program stays there
Halt(i) == OpAddr(1, At(i))

(* Register arithmetic: load a into Vx and b into Vy, then 8xyN *)

AluRegs == {0, 1, 15}
AluBytes == {0, 1, 3, 127, 128, 255}
AluOps == {4, 5, 6, 7, 14}

AluImage(x, y, a, b, n) ==
    Prog(<<OpXKK(6, x, a), OpXKK(6, y, b), OpXYN(8, x, y, n), Halt(3)>>)

AluImages ==
    {AluImage(x, y, a, b, n) : x \in AluRegs, y \in AluRegs,
                                a \in AluBytes, b \in AluBytes, n \in AluOps}

LoadAlu == LoadRom(AluImages)
NextAlu == LoadAlu \/ Step
SpecAlu == Init /\ [][NextAlu]_vars

(* Drawing: Vx = vx, Vy = vy, I at the sprite, then three draws of heights *)
(* n1, n2, n1 at that position                                             *)

DrawRegs == {<<0, 1>>, <<15, 0>>, <<0, 15>>, <<1, 1>>}
DrawXs == {0, 60, 63}
DrawYs == {0, 31, 33}
DrawHeights == {<<0, 0>>, <<1, 1>>, <<2, 2>>, <<15, 15>>, <<1, 2>>, <<2, 1>>}
DrawSprites ==
    {<<255, 129, 0, 60, 1, 128, 255, 0, 24, 36, 66, 129, 255, 170, 85>>,
     <<128, 8, 1, 0, 0, 0, 0, 0, 0, 0, 0, 0, 0, 0, 16>>}

DrawImage(x, y, vx, vy, sprite, n1, n2) ==
    Prog(<<OpXKK(6, x, vx), OpXKK(6, y, vy), OpAddr(10, At(7)),
           OpXYN(13, x, y, n1), OpXYN(13, x, y, n2), OpXYN(13, x, y, n1),
           Halt(6)>>) \o sprite

DrawImages ==
    {DrawImage(r[1], r[2], vx, vy, sprite, h[1], h[2]) :
        r \in DrawRegs, vx \in DrawXs, vy \in DrawYs,
        sprite \in DrawSprites, h \in DrawHeights}

LoadDraw == LoadRom(DrawImages)
NextDraw == LoadDraw \/ Step
SpecDraw == Init /\ [][NextDraw]_vars

(* Subroutines: d calls nested inside each other, each returning to the    *)
(* return that follows its call; the outermost returns to a halt. With     *)
(* d = 0 the image is a lone return.                                       *)

MaxDepth == 17

RET == 238              \* 00EE

CallWord(d, w) ==
    IF w = 2 * d THEN RET
    ELSE IF w % 2 = 0 THEN OpAddr(2, At(w + 2))
    ELSE IF w = 1 THEN Halt(1)
    ELSE RET

CallImage(d) == Prog([w \in 1..(2 * d + 1) |-> CallWord(d, w - 1)])

CallImages == {CallImage(d) : d \in 0..MaxDepth}

LoadCall == LoadRom(CallImages)
NextCall == LoadCall \/ Step
SpecCall == Init /\ [][NextCall]_vars

(* Keys: Vx = 170, then Fx0A, or Vx = 5, the delay timer loaded from it  *)
(* and Fx0A, with keys going down and up at any time                     *)

KeyRegs == {0, 5, 15}
KeyInputs == {0, 3, 7, 15, 16}

KeyImage(x) == Prog(<<OpXKK(6, x, 170), OpXKK(15, x, 10), Halt(2)>>)

\* the wait entered with the delay timer running
WaitImage(x) ==
    Prog(<<OpXKK(6, x, 5), OpXKK(15, x, 21), OpXKK(15, x, 10), Halt(3)>>)

KeyImages == {KeyImage(x) : x \in KeyRegs} \cup {WaitImage(x) : x \in KeyRegs}

LoadKey == LoadRom(KeyImages)
PressKey == SetKey(KeyInputs)
NextKey == LoadKey \/ Step \/ PressKey
SpecKey == Init /\ [][NextKey]_vars

(* Cycles: V0 = dt, V1 = st, the timers loaded from them, then one word   *)
(* that is unknown to the decoder, or a key-wait no key ends, or an add,  *)
(* or a read of the delay timer                                           *)

CycleTimes == {0, 1, 2, 4}
CycleWords ==
    {0, 255, OpXYN(8, 0, 0, 8), OpXYN(8, 1, 2, 15), OpXKK(14, 0, 0),
     OpXKK(14, 1, 162), OpXKK(15, 0, 0), OpXKK(15, 15, 255),
     OpXKK(15, 2, 10), OpXKK(7, 2, 1), OpXKK(15, 2, 7)}

CycleImage(dt, st, w) ==
    Prog(<<OpXKK(6, 0, dt), OpXKK(6, 1, st), OpXKK(15, 0, 21),
           OpXKK(15, 1, 24), w, Halt(5)>>)

CycleImages ==
    {CycleImage(dt, st, w) : dt \in CycleTimes, st \in CycleTimes, w \in CycleWords}

LoadCycle == LoadRom(CycleImages)
NextCycle == LoadCycle \/ Step
SpecCycle == Init /\ [][NextCycle]_vars

(* Reset: a program that leaves nothing as chip8_init set it (V0 = v, both *)
(* timers loaded, I at a sprite, a pixel row drawn, a call made), with a  *)
(* key going down and up, and chip8_init called again at any point        *)

ResetBytes == {0, 5}
ResetKeys == {3}

ResetImage(v) ==
    Prog(<<OpXKK(6, 0, v), OpXKK(15, 0, 21), OpXKK(15, 0, 24), OpAddr(10, At(7)),
           OpXYN(13, 0, 0, 1), OpAddr(2, At(6)), Halt(6)>>) \o <<255, 0>>

ResetImages == {ResetImage(v) : v \in ResetBytes}

LoadReset == LoadRom(ResetImages)
ResetKey == SetKey(ResetKeys)
NextReset == LoadReset \/ Step \/ ResetKey \/ Reset
SpecReset == Init /\ [][NextReset]_vars

(* Loading: images of no byte, one word, two words, and of as many bytes  *)
(* as program memory holds and one more, loaded first and then over one   *)
(* another                                                                *)

\* the image of n bytes b
Fill(n, b) == [k \in 1..n |-> b]

LoadImages ==
    {<<>>, Prog(<<OpXKK(7, 0, 1)>>),
     Prog(<<OpXKK(6, 0, 1), Halt(1)>>), Prog(<<OpXKK(6, 1, 2), Halt(1)>>),
     Fill(CHIP8_MEM_SIZE - CHIP8_PROGRAM_OFFSET, 18),
     Fill(CHIP8_MEM_SIZE - CHIP8_PROGRAM_OFFSET + 1, 18),
     Fill(CHIP8_MEM_SIZE - CHIP8_PROGRAM_OFFSET + 1, 255)}

LoadLoad == LoadRom(LoadImages)
ReLoad == Reload(LoadImages)
NextLoad == LoadLoad \/ Step \/ ReLoad
SpecLoad == Init /\ [][NextLoad]_vars

(* Jumps and memory: V0 = v and a jump, call or indexed jump to an even   *)
(* or odd address, near the image or at the end of memory, followed by    *)
(* bytes that decode from either; I near the end of memory and one       *)
(* instruction that reads or writes at I; the last word of memory        *)
(* executed                                                               *)

JumpBytes == {0, 1, 2, 255}
JumpKinds == {1, 2, 11}
JumpTargets == {At(2), At(2) + 1, 3840, CHIP8_MEM_SIZE - 2, CHIP8_MEM_SIZE - 1}

JumpImage(v, kind, t) ==
    Prog(<<OpXKK(6, 0, v), OpAddr(kind, t)>>) \o <<112, 96, 48, 18, 7>>

MemTargets ==
    {768, CHIP8_MEM_SIZE - 3, CHIP8_MEM_SIZE - 2, CHIP8_MEM_SIZE - 1}
MemWords ==
    {OpXKK(15, 0, 51), OpXKK(15, 1, 85), OpXKK(15, 1, 101), OpXYN(13, 0, 0, 2)}

MemImage(t, w) == Prog(<<OpAddr(10, t), w, Halt(2)>>)

\* a jump to the last word of memory, which holds LD V0, 0
LastWordImage ==
    [k \in 1..(CHIP8_MEM_SIZE - CHIP8_PROGRAM_OFFSET) |->
        IF k = 1 THEN 31 ELSE IF k = 2 THEN 254
        ELSE IF k = CHIP8_MEM_SIZE - CHIP8_PROGRAM_OFFSET - 1 THEN 96 ELSE 0]

\* a call of a subroutine that returns at once
ReturnImage == Prog(<<OpAddr(2, At(2)), Halt(1), RET>>)

JumpImages ==
    {JumpImage(v, kind, t) : v \in JumpBytes, kind \in JumpKinds, t \in JumpTargets}
    \cup {MemImage(t, w) : t \in MemTargets, w \in MemWords}
    \cup {LastWordImage, ReturnImage}

LoadJump == LoadRom(JumpImages)
NextJump == LoadJump \/ Step
SpecJump == Init /\ [][NextJump]_vars

(* Instructions one by one: a digit in Vx and the glyph address; a value  *)
(* in Vx, I set and the BCD store; load-immediate and add-immediate;      *)
(* V0 = a, V1 = b, I at the image and one instruction of every kind; a    *)
(* sprite row drawn and the screen cleared; key 1 going down and up       *)

OpsRegs == {0, 15}

GlyphImage(x, v) == Prog(<<OpXKK(6, x, v), OpXKK(15, x, 41), Halt(2)>>)
GlyphImages == {GlyphImage(x, v) : x \in OpsRegs, v \in 0..16}

BcdBytes == {0, 7, 99, 100, 128, 255}
BcdTargets == {768, CHIP8_MEM_SIZE - 3}
BcdImage(x, v, t) ==
    Prog(<<OpXKK(6, x, v), OpAddr(10, t), OpXKK(15, x, 51), Halt(3)>>)
BcdImages ==
    {BcdImage(x, v, t) : x \in OpsRegs, v \in BcdBytes, t \in BcdTargets}

AddBytes == {0, 3, 5, 128, 255}
AddImages ==
    {<<96, k1, 112, k2>> : k1 \in AddBytes, k2 \in AddBytes}
    \cup {Prog(<<OpXKK(6, 15, 1), OpXKK(6, 0, k1), OpXKK(7, 0, k2)>>) :
                k1 \in AddBytes, k2 \in AddBytes}

WordRegs == {<<0, 1>>, <<1, 1>>, <<255, 3>>, <<7, 200>>}
WordWords ==
    {224, 480, OpXKK(6, 2, 7), OpXKK(7, 0, 255),
     OpXYN(8, 0, 1, 0), OpXYN(8, 0, 1, 1), OpXYN(8, 0, 1, 2), OpXYN(8, 0, 1, 3),
     OpXYN(8, 0, 1, 4), OpXYN(8, 0, 1, 5), OpXYN(8, 0, 1, 6), OpXYN(8, 0, 1, 7),
     OpXYN(8, 0, 1, 14), OpAddr(10, 291), OpXKK(12, 0, 255), OpXYN(13, 0, 1, 1),
     OpXKK(15, 0, 7), OpXKK(15, 0, 21), OpXKK(15, 0, 24), OpXKK(15, 0, 30),
     OpXKK(15, 0, 41), OpXKK(15, 0, 51), OpXKK(15, 1, 85), OpXKK(15, 1, 101),
     OpXKK(3, 0, 1), OpXKK(4, 0, 1), OpXYN(5, 0, 1, 0), OpXYN(9, 0, 1, 0),
     OpXKK(14, 0, 158), OpXKK(14, 0, 161), OpXKK(15, 2, 10),
     OpAddr(1, At(5)), OpAddr(2, At(5)), OpAddr(11, At(4)), 0,
     OpXYN(5, 0, 1, 1), OpXYN(9, 0, 1, 1)}

WordImage(a, b, w) ==
    Prog(<<OpXKK(6, 0, a), OpXKK(6, 1, b), OpAddr(10, At(0)), w, Halt(4), Halt(5)>>)
WordImages == {WordImage(r[1], r[2], w) : r \in WordRegs, w \in WordWords}

\* a sprite row drawn on row 1, then the screen cleared
ClsImage ==
    Prog(<<OpXKK(6, 1, 1), OpAddr(10, At(0)), OpXYN(13, 0, 1, 1), 224, Halt(4)>>)

OpsKeys == {1}

OpsImages == GlyphImages \cup BcdImages \cup AddImages \cup WordImages \cup {ClsImage}

LoadOps == LoadRom(OpsImages)
OpsKey == SetKey(OpsKeys)
NextOps == LoadOps \/ Step \/ OpsKey
SpecOps == Init /\ [][NextOps]_vars

(* Register blocks: V0..V15 loaded, I = a, Fx55, V0..V15 overwritten with  *)
(* other values, I = a again, Fx65; a away from the image or such that    *)
(* the block ends at the last byte of memory                              *)

TripRegs == 0..15
TripSeeds == {1, 200}

\* the value register i is loaded with
TripValue(s, i) == (s + 17 * i) % 256

TripImage(x, s, far) ==
    LET a == IF far THEN CHIP8_MEM_SIZE - 1 - x ELSE 768
    IN  Prog([i \in 1..16 |-> OpXKK(6, i - 1, TripValue(s, i - 1))]
             \o <<OpAddr(10, a), OpXKK(15, x, 85)>>
             \o [i \in 1..16 |-> OpXKK(6, i - 1, 255 - TripValue(s, i - 1))]
             \o <<OpAddr(10, a), OpXKK(15, x, 101), Halt(36)>>)

TripImages ==
    {TripImage(x, s, far) : x \in TripRegs, s \in TripSeeds, far \in BOOLEAN}

LoadTrip == LoadRom(TripImages)
NextTrip == LoadTrip \/ Step
SpecTrip == Init /\ [][NextTrip]_vars

\* display() is called again and again by the timer of main.c, so a step
\* that can change the state is eventually taken
SpecCycleFair == SpecCycle /\ WF_vars(Step)

----------------------------------------------------------------------------
(* What is about to run *)

Running == phase = "run" /\ ~chip.ub

\* the word chip8_step will fetch
Cur == Fetch(chip, NoOracle)

\* chip8_step is about to execute 8xyN
ExecutesAlu(n) == Running /\ FetchOk(chip) /\ OpClass(Cur) = 8 /\ OpN(Cur) = n

----------------------------------------------------------------------------
(* Register arithmetic *)

\* C1 as stated: ADD (8xy4) leaves VF = 1 iff a + b > 255 (else 0) and
\* Vx = (a + b) mod 256, for every register pair x, y in 0..15.
C1_AddEveryRegisterPair ==
    [][Step /\ ExecutesAlu(4) =>
        LET x == OpX(Cur)
            a == chip.V[OpX(Cur)]
            b == chip.V[OpY(Cur)]
        IN  /\ chip'.V[15] = (IF a + b > 255 THEN 1 ELSE 0)
            /\ chip'.V[x] = (a + b) % 256]_vars

\* C1 amended: ADD (8xy4) leaves VF = 1 iff a + b > 255 (else 0) and
\* Vx = (a + b) mod 256 for every x in 0..14 and y in 0..15; with x = 15 the
\* sum is stored after the carry, so VF ends as (a + b) mod 256.
C1_Add ==
    [][Step /\ ExecutesAlu(4) =>
        LET x == OpX(Cur)
            a == chip.V[OpX(Cur)]
            b == chip.V[OpY(Cur)]
        IN  /\ x # 15 => chip'.V[15] = (IF a + b > 255 THEN 1 ELSE 0)
            /\ chip'.V[x] = (a + b) % 256]_vars

\* ADD V0, V1 has run on 255 + 1: carry set, V0 wrapped to 0
C1_AddWitness ==
    /\ opcode = OpXYN(8, 0, 1, 4)
    /\ chip.V[1] = 1
    /\ chip.V[0] = 0
    /\ chip.V[15] = 1

\* C2 as stated, for the registers x in 0..14 that are not the flag register:
\* SUBN (8xy7) leaves Vx = (b - a) mod 256 and VF = 1 iff b >= a (else 0).
C2_Subn ==
    [][Step /\ ExecutesAlu(7) /\ OpX(Cur) # 15 =>
        LET x == OpX(Cur)
            a == chip.V[OpX(Cur)]
            b == chip.V[OpY(Cur)]
        IN  /\ chip'.V[x] = (b - a) % 256
            /\ chip'.V[15] = IF b >= a THEN 1 ELSE 0]_vars

\* C3 as stated, for the registers x in 0..14 that are not the flag register:
\* SUB (8xy5) leaves Vx = (a - b) mod 256 and VF = 1 iff a >= b (else 0).
C3_Sub ==
    [][Step /\ ExecutesAlu(5) /\ OpX(Cur) # 15 =>
        LET x == OpX(Cur)
            a == chip.V[OpX(Cur)]
            b == chip.V[OpY(Cur)]
        IN  /\ chip'.V[x] = (a - b) % 256
            /\ chip'.V[15] = IF a >= b THEN 1 ELSE 0]_vars

----------------------------------------------------------------------------
(* Drawing *)

\* the instruction word held at address a
WordAt(a) == chip.mem[a] * 256 + chip.mem[a + 1]

\* chip8_step is about to execute Dxyn
ExecutesDraw == Running /\ FetchOk(chip) /\ OpClass(Cur) = 13

\* C5 as stated: on a cleared framebuffer, executing the same draw instruction
\* Dxyn twice in a row leaves the framebuffer fully cleared again, for every
\* sprite, height and pair of position registers. (The images draw at words 3
\* and 4, on the framebuffer chip8_init cleared.)
C5_DrawTwiceClears ==
    (/\ phase = "run"
     /\ OpClass(WordAt(At(3))) = 13
     /\ WordAt(At(3)) = WordAt(At(4))
     /\ chip.pc = At(5))
    => chip.display = Zeros(DisplaySize)

\* C6 as stated: after Dxyn, VF = 1 iff at least one framebuffer pixel toggled
\* by the sprite was on before the instruction, and VF = 0 otherwise, whatever
\* VF held before and whichever row the collision is in.
C6_DrawCollisionFlag ==
    [][Step /\ ExecutesDraw =>
        chip'.V[15] =
            (IF \E b \in 0..(DisplaySize - 1) :
                    chip.display[b] = 1 /\ chip'.display[b] # chip.display[b]
             THEN 1 ELSE 0)]_vars

\* C7 as stated, for the draws whose position registers are not VF and
\* whose every access stays inside its array: Dxyn composites sprite bit j of
\* row i at column (Vx + j) mod 64 and row (Vy + i) mod 32, wrapping at the
\* right and bottom edges.
C7_DrawWraps ==
    [][Step /\ ExecutesDraw /\ ~chip'.ub /\ OpX(Cur) # 15 /\ OpY(Cur) # 15 =>
        LET vx == chip.V[OpX(Cur)]
            vy == chip.V[OpY(Cur)]
            covered(b) ==
                \E i \in 0..(OpN(Cur) - 1), j \in 0..7 :
                    /\ MemOk(chip.I + i)
                    /\ SpriteBit(chip.mem[chip.I + i], j)
                    /\ b = ((vy + i) % CHIP8_DISPLAY_HEIGHT) * CHIP8_DISPLAY_WIDTH
                           + ((vx + j) % CHIP8_DISPLAY_WIDTH)
        IN  \A b \in 0..(DisplaySize - 1) :
                chip'.display[b] =
                    (IF covered(b) THEN 1 - chip.display[b] ELSE chip.display[b])]_vars

----------------------------------------------------------------------------
(* Subroutines *)

\* chip8_step is about to execute 2nnn
ExecutesCall == Running /\ FetchOk(chip) /\ OpClass(Cur) = 2

\* chip8_step is about to execute 00EE
ExecutesRet == Running /\ FetchOk(chip) /\ OpClass(Cur) = 0 /\ OpKK(Cur) = RET

\* C8: for every nesting depth up to 16 from sp = 0: a CALL (2nnn) stores its
\* own address in stack[sp], raises sp by one and jumps; a RET (00EE) pops the
\* newest slot and resumes 2 past it; neither changes anything but pc, sp
\* and the stack (the timers are 0 here); so each RET resumes 2 past the CALL
\* that pushed the slot it popped, and once the outermost subroutine has
\* returned sp is back to 0.
C8_CallReturn ==
    /\ [][Step /\ ExecutesCall /\ chip.sp < CHIP8_STACK_SIZE =>
            chip' = [chip EXCEPT !.stack[chip.sp] = chip.pc,
                                 !.sp = chip.sp + 1,
                                 !.pc = OpNNN(Cur)]]_vars
    /\ [][Step /\ ExecutesRet /\ chip.sp \in 1..CHIP8_STACK_SIZE =>
            chip' = [chip EXCEPT !.sp = chip.sp - 1,
                                 !.pc = chip.stack[chip.sp - 1] + 2]]_vars
    /\ [](opcode = RET /\ ~chip.ub =>
            /\ OpClass(WordAt(chip.stack[chip.sp])) = 2
            /\ chip.pc = chip.stack[chip.sp] + 2)
    /\ [](Running /\ chip.pc = At(1) => chip.sp = 0)

\* 16 nested calls have returned: the program is back at word 1 with sp = 0,
\* and stack[15] still holds the address of the innermost call
C8_CallReturnWitness ==
    /\ opcode = RET
    /\ chip.pc = At(1)
    /\ chip.sp = 0
    /\ chip.stack[15] = At(30)
    /\ ~chip.ub

\* C9 as stated: 0 <= sp <= 16 in every state reachable from any loaded image.
C9_StackPointerInRange == chip.sp >= 0 /\ chip.sp <= CHIP8_STACK_SIZE

----------------------------------------------------------------------------
(* Keys *)

\* chip8_step is about to execute Fx0A
ExecutesKeyWait == Running /\ FetchOk(chip) /\ OpClass(Cur) = 15 /\ OpKK(Cur) = 10

----------------------------------------------------------------------------
(* The cycle: unknown words, timers and the tone *)

\* chip8_step is about to fetch a word its switch has no handler for
ExecutesUnknown == Running /\ FetchOk(chip) /\ ~Known(Cur)

\* the arguments of the "Unknown instruction: 0x%X" message of the last step
UnknownMessage == IF unknown THEN <<opcode>> ELSE <<>>

\* the timers as the dispatch of the step about to run leaves them: Fx15 and
\* Fx18 load them from Vx, every other instruction leaves them alone
DelayAfterDispatch ==
    IF OpClass(Cur) = 15 /\ OpKK(Cur) = 21 THEN chip.V[OpX(Cur)] ELSE chip.delay_timer
SoundAfterDispatch ==
    IF OpClass(Cur) = 15 /\ OpKK(Cur) = 24 THEN chip.V[OpX(Cur)] ELSE chip.sound_timer

C12_UnknownReported ==
    (unknown /\ ~chip.ub) =>
        /\ \E i \in DOMAIN UnknownMessage : UnknownMessage[i] = opcode
        /\ \E i \in DOMAIN UnknownMessage : UnknownMessage[i] = chip.pc

\* C13 as stated: after an unknown opcode at word 4 the machine eventually
\* either makes progress (pc changes) or is halted; it never re-fetches the
\* same unrecognised word at an unchanged pc for ever.
C13_NoBusyLoop ==
    (unknown /\ chip.pc = At(4)) ~> (chip.pc # At(4) \/ phase = "halt")

\* C14: in every step, whatever is dispatched, each timer ends one below the
\* value the dispatch left it with when that is above 0 and at 0 otherwise,
\* independently of the other; neither goes from 0 to 255.
C14_TimerTick ==
    [][Step /\ Running /\ FetchOk(chip) /\ ~chip'.ub =>
        /\ chip'.delay_timer =
                (IF DelayAfterDispatch > 0 THEN DelayAfterDispatch - 1 ELSE 0)
        /\ chip'.sound_timer =
                (IF SoundAfterDispatch > 0 THEN SoundAfterDispatch - 1 ELSE 0)]_vars

\* an unsatisfied key-wait has been stepped once with the delay timer at 2
\* and the sound timer at 0: the one went down, the other stayed
C14_TimerTickWitness ==
    /\ opcode = OpXKK(15, 2, 10)
    /\ chip.pc = At(4)
    /\ chip.V[0] = 4 /\ chip.V[1] = 0
    /\ chip.delay_timer = 1
    /\ chip.sound_timer = 0
    /\ ~beep

----------------------------------------------------------------------------
(* Reset *)

\* C16 as stated: after chip8_init, called from any prior machine state, the
\* delay timer is 0 and the sound timer is 0.
C16_ResetZeroesTimers ==
    phase = "init" => chip.delay_timer = 0 /\ chip.sound_timer = 0

\* C17 as stated: after chip8_init, memory [0, 80) holds the 16 five-byte
\* digit glyphs, the glyph of digit d at 5d..5d+4 and not all zero.
C17_ResetInstallsFont ==
    phase = "init" =>
        \A d \in 0..15 : \E i \in 0..4 : chip.mem[5 * d + i] # 0

\* C18: after chip8_init, called from any prior state, pc = 0x200, sp = 0,
\* all 16 V registers are 0, all 16 key states are 0, all 64*32 framebuffer
\* pixels are 0 and program memory [0x200, 4096) is all zero.
C18_ResetBaseline ==
    phase = "init" =>
        /\ chip.pc = 512
        /\ chip.sp = 0
        /\ \A r \in 0..15 : chip.V[r] = 0
        /\ \A k \in 0..15 : chip.keypad[k] = 0
        /\ \A b \in 0..(64 * 32 - 1) : chip.display[b] = 0
        /\ \A a \in 512..4095 : chip.mem[a] = 0

\* chip8_init has been called on a machine that had run ResetImage(5) up to
\* its call, with key 3 down at some point: I, the stack slot of the call
\* and the sound timer still show that run
C18_ResetBaselineWitness ==
    /\ phase = "init"
    /\ opcode = OpAddr(2, At(6))
    /\ chip.I = At(7)
    /\ chip.stack[0] = At(5)
    /\ chip.sound_timer = 1

----------------------------------------------------------------------------
(* Loading *)

\* a call of chip8_load_rom has been made: the file read is another one, or
\* main() has left "init" (a step changes neither; loading the same file
\* over itself changes nothing)
Loads == file' # file \/ phase' # phase

\* C19: a load succeeds iff the image is at most 4096 - 0x200 = 3584 bytes
\* long (main() goes on to run the machine iff it did), and a rejected load
\* leaves the whole machine state unchanged.
C19_LoadCapacity ==
    [][Loads =>
        /\ phase = "init" => (phase' = "run" <=> Len(file') <= 4096 - 512)
        /\ phase = "init" => (phase' = "halt" <=> Len(file') >= 4096 - 512 + 1)
        /\ Len(file') > 4096 - 512 => chip' = chip]_vars

\* the image of exactly 3584 bytes has been loaded as the first image: the
\* machine runs and the last byte of memory holds the last byte of the image
C19_LoadCapacityWitness ==
    /\ phase = "run"
    /\ opcode = -1
    /\ Len(file) = 3584
    /\ chip.mem[4095] = 18

\* C20: a successful load of an image of length n places image byte k at
\* address 0x200 + k for every k < n, writes no address from 4096 on, and
\* changes no other memory byte and nothing outside memory.
C20_LoadCopiesVerbatim ==
    [][Loads /\ Len(file') <= 4096 - 512 =>
        /\ DOMAIN chip'.mem = 0..4095
        /\ \A a \in 0..4095 :
                chip'.mem[a] =
                    (IF a >= 512 /\ a - 512 < Len(file')
                     THEN file'[a - 512 + 1] ELSE chip.mem[a])
        /\ chip' = [chip EXCEPT !.mem = chip'.mem]]_vars

\* the one-word image has been loaded over the 3584-byte image after a step
\* of that one: its two bytes are in place, the bytes above keep the old image
C20_LoadCopiesVerbatimWitness ==
    /\ phase = "run"
    /\ Len(file) = 2
    /\ chip.mem[512] = 112 /\ chip.mem[513] = 1
    /\ chip.mem[514] = 18 /\ chip.mem[4095] = 18
    /\ chip.pc = 530

----------------------------------------------------------------------------
(* The program counter and memory accesses *)

\* C21 as stated: pc is even in every reachable state, for every loaded image.
C21_PcEven == chip.pc % 2 = 0

\* C21 as amended: 1nnn and 2nnn set pc to nnn and Bnnn to V0 + nnn, whatever
\* their parity, 00EE to 2 past the popped address, and every other step
\* moves pc by 0, 2 or 4, so keeps its parity.
C21_PcParity ==
    [][Step /\ Running /\ FetchOk(chip) /\ ~chip'.ub =>
        CASE OpClass(Cur) \in {1, 2} -> chip'.pc = OpNNN(Cur)
          [] OpClass(Cur) = 11 -> chip'.pc = chip.V[0] + OpNNN(Cur)
          [] OpClass(Cur) = 0 /\ OpKK(Cur) = RET ->
                chip'.pc = chip.stack[chip.sp - 1] + 2
          [] OTHER -> chip'.pc - chip.pc \in {0, 2, 4}]_vars

\* a jump to 0x205 has been taken and the LD V0 found there executed: pc has
\* gone from one odd address to the next
C21_PcParityWitness ==
    /\ opcode = OpXKK(6, 0, 48)
    /\ chip.pc = At(3) + 1
    /\ chip.V[0] = 48
    /\ ~chip.ub

\* C22 as stated: each memory access a step makes resolves to an address in
\* [0, 4096): the fetch at pc and pc + 1, the sprite rows at I + i of Dxyn,
\* the BCD store at I..I+2 of Fx33, the register block at I..I+x of Fx55 and
\* Fx65.
C22_MemoryInRange ==
    [][Step /\ Running =>
        /\ MemOk(chip.pc) /\ MemOk(chip.pc + 1)
        /\ FetchOk(chip) =>
              /\ OpClass(Cur) = 13 =>
                    \A i \in 0..(OpN(Cur) - 1) : chip.I + i \in 0..4095
              /\ OpClass(Cur) = 15 /\ OpKK(Cur) = 51 =>
                    \A i \in 0..2 : chip.I + i \in 0..4095
              /\ OpClass(Cur) = 15 /\ OpKK(Cur) \in {85, 101} =>
                    \A i \in 0..OpX(Cur) : chip.I + i \in 0..4095]_vars

----------------------------------------------------------------------------
(* set_key *)

\* C23: in every state the machine reaches between steps, chip8_set_key with
\* an index in 0..15 changes exactly that one key state and nothing else, and
\* with an index outside 0..15 it changes nothing at all.
C23_SetKey ==
    \A k \in KeyInputs, st \in {0, 1} :
        LET r == chip8_set_key(chip, k, st)
        IN  IF k \in 0..15
            THEN /\ r.keypad = [i \in 0..15 |-> IF i = k THEN st ELSE chip.keypad[i]]
                 /\ r = [chip EXCEPT !.keypad = r.keypad]
            ELSE r = chip

\* keys 3 and 15 are down and no other, during the wait on V5: set_key has
\* acted at least twice and each call left the other keys alone
C23_SetKeyWitness ==
    /\ phase = "run"
    /\ chip.pc = At(1)
    /\ chip.V[5] = 170
    /\ {i \in 0..15 : chip.keypad[i] # 0} = {3, 15}

----------------------------------------------------------------------------
(* Instructions one by one *)

\* chip8_step is about to execute Fx29
ExecutesGlyph == Running /\ FetchOk(chip) /\ OpClass(Cur) = 15 /\ OpKK(Cur) = 41

\* chip8_step is about to execute Fx33
ExecutesBcd == Running /\ FetchOk(chip) /\ OpClass(Cur) = 15 /\ OpKK(Cur) = 51

\* chip8_step is about to execute 7xkk
ExecutesAddByte == Running /\ FetchOk(chip) /\ OpClass(Cur) = 7

\* C24: Fx29 with v = Vx in 0..15 leaves I = 5 * v exactly, pc advanced by 2
\* and every V register and memory byte unchanged, for every register x.
C24_GlyphAddress ==
    [][Step /\ ExecutesGlyph /\ chip.V[OpX(Cur)] \in 0..15 =>
        /\ chip'.I = 5 * chip.V[OpX(Cur)]
        /\ chip'.pc = chip.pc + 2
        /\ chip'.V = chip.V
        /\ chip'.mem = chip.mem]_vars

\* FF29 has executed with VF = 15: I is 75
C24_GlyphAddressWitness ==
    /\ opcode = OpXKK(15, 15, 41)
    /\ chip.V[15] = 15
    /\ chip.I = 75
    /\ chip.pc = At(2)

\* C25: Fx33 with v = Vx and I..I+2 inside memory leaves mem[I] = v div 100,
\* mem[I+1] = (v div 10) mod 10, mem[I+2] = v mod 10, so that the three
\* digits make up v, and I, every V register and every other memory byte
\* unchanged.
C25_BcdStore ==
    [][Step /\ ExecutesBcd /\ chip.I + 2 <= 4095 =>
        LET v == chip.V[OpX(Cur)]
            i == chip.I
        IN  /\ chip'.mem =
                  [a \in 0..4095 |->
                      IF a = i THEN v \div 100
                      ELSE IF a = i + 1 THEN (v \div 10) % 10
                      ELSE IF a = i + 2 THEN v % 10
                      ELSE chip.mem[a]]
            /\ 100 * chip'.mem[i] + 10 * chip'.mem[i + 1] + chip'.mem[i + 2] = v
            /\ chip'.I = chip.I
            /\ chip'.V = chip.V]_vars

\* F033 has executed with V0 = 255 and I = 0x300: the bytes there are 2, 5, 5
C25_BcdStoreWitness ==
    /\ opcode = OpXKK(15, 0, 51)
    /\ chip.V[0] = 255
    /\ chip.I = 768
    /\ chip.mem[768] = 2 /\ chip.mem[769] = 5 /\ chip.mem[770] = 5

\* C26: with the image 60 k1 70 k2 loaded on the reset machine, after the
\* second step V0 = (k1 + k2) mod 256 and pc = 0x204; and 7xkk on a register
\* other than VF leaves Vx = (Vx + kk) mod 256 and VF as it was.
C26_LoadThenAdd ==
    /\ []((/\ phase = "run"
           /\ Len(file) = 4 /\ file[1] = 96 /\ file[3] = 112
           /\ opcode = file[3] * 256 + file[4])
          => (chip.V[0] = (file[2] + file[4]) % 256 /\ chip.pc = 516))
    /\ [][Step /\ ExecutesAddByte /\ OpX(Cur) # 15 =>
            /\ chip'.V[OpX(Cur)] = (chip.V[OpX(Cur)] + OpKK(Cur)) % 256
            /\ chip'.V[15] = chip.V[15]]_vars

\* the image 60 05 70 03 has been stepped twice: V0 = 8 and pc = 0x204
C26_LoadThenAddWitness ==
    /\ file = <<96, 5, 112, 3>>
    /\ opcode = 28675
    /\ chip.V[0] = 8
    /\ chip.pc = 516

\* the instructions that set pc themselves: jump, call, return, indexed
\* jump, the six skips and the key-wait
IsControl(op) ==
    \/ OpClass(op) \in {1, 2, 11, 3, 4, 5, 9, 14}
    \/ OpClass(op) = 0 /\ OpKK(op) = RET
    \/ OpClass(op) = 15 /\ OpKK(op) = 10

\* the instructions that read the keys: Ex9E, ExA1 and Fx0A
IsKeyInstruction(op) ==
    \/ OpClass(op) = 14 /\ OpKK(op) \in {158, 161}
    \/ OpClass(op) = 15 /\ OpKK(op) = 10

\* clear-screen, as the decoder takes it
IsCls(op) == OpClass(op) = 0 /\ OpKK(op) = 224

\* key states a second machine may hold: none down, key 1 down, all down
KeyPads ==
    {[i \in 0..15 |-> 0], [i \in 0..15 |-> IF i = 1 THEN 1 ELSE 0],
     [i \in 0..15 |-> 1]}

\* the machine c with the key states left out of the comparison
NoKeys(c) == [c EXCEPT !.keypad = [i \in 0..15 |-> 0]]

\* C27: every instruction the decoder recognises, other than jump, call,
\* return, indexed jump, the six skips and the key-wait, advances pc by
\* exactly 2, whatever its operands (as long as its accesses stay inside
\* their arrays).
C27_PcAdvance ==
    [][Step /\ Running /\ FetchOk(chip) /\ Known(Cur) /\ ~IsControl(Cur)
            /\ ~chip'.ub =>
        chip'.pc = chip.pc + 2]_vars

\* the draw D011 has executed with V0 = 255 and V1 = 3 and pc went on by 2
C27_PcAdvanceWitness ==
    /\ opcode = OpXYN(13, 0, 1, 1)
    /\ chip.V[0] = 255 /\ chip.V[1] = 3
    /\ chip.pc = At(4)
    /\ ~chip.ub

\* C28: a step that executes anything but a draw or a clear-screen leaves
\* every framebuffer pixel unchanged; clear-screen sets all 64*32 pixels to
\* 0; every pixel is 0 or 1 in every state (as long as the accesses of the
\* steps stay inside their arrays).
C28_FramebufferFrame ==
    /\ [][Step /\ Running /\ FetchOk(chip) /\ ~chip'.ub =>
            /\ (OpClass(Cur) # 13 /\ ~IsCls(Cur)) => chip'.display = chip.display
            /\ IsCls(Cur) => \A b \in 0..(64 * 32 - 1) : chip'.display[b] = 0]_vars
    /\ [](~chip.ub => \A b \in 0..(64 * 32 - 1) : chip.display[b] \in {0, 1})

\* the screen has been cleared after a sprite row was drawn on row 1
C28_FramebufferFrameWitness ==
    /\ file = ClsImage
    /\ opcode = 224
    /\ chip.pc = At(4)
    /\ \A b \in 0..(64 * 32 - 1) : chip.display[b] = 0

\* C29: no step, whatever it executes, changes any of the 16 key states (as
\* long as its accesses stay inside their arrays).
C29_InputFrame ==
    [][Step /\ ~chip'.ub => chip'.keypad = chip.keypad]_vars

\* the key-wait on V2 has ended with key 1, which is still down
C29_InputFrameWitness ==
    /\ opcode = OpXKK(15, 2, 10)
    /\ chip.V[2] = 1
    /\ chip.pc = At(4)
    /\ chip.keypad[1] = 1

\* C30: a step that executes anything but Ex9E, ExA1 or Fx0A gives a machine
\* that differs from this one in its key states only the same pc, registers,
\* I, stack, memory, timers and framebuffer as it gives this one, and for
\* every instruction but Cxkk that result is the only one the step can have.
C30_KeysReadOnlyByKeyInstructions ==
    [][Step /\ Running /\ FetchOk(chip) /\ ~IsKeyInstruction(Cur) /\ ~chip'.ub =>
        \A kp \in KeyPads :
            LET other == [chip EXCEPT !.keypad = kp]
            IN  IF OpClass(Cur) = 12
                THEN \E orc \in Oracles(other) :
                        NoKeys(chip8_step(other, orc).chip) = NoKeys(chip')
                ELSE \A orc \in Oracles(other) :
                        NoKeys(chip8_step(other, orc).chip) = NoKeys(chip')]_vars

\* 3001 has executed with V0 = 1 while key 1 was down, and skipped
C30_KeysReadOnlyByKeyInstructionsWitness ==
    /\ opcode = OpXKK(3, 0, 1)
    /\ chip.V[0] = 1
    /\ chip.pc = At(5)
    /\ chip.keypad[1] = 1

----------------------------------------------------------------------------
(* The decoder against the instruction list *)

\* the words of the instruction list of chip8.h
Documented(op) ==
    CASE OpClass(op) = 0 -> op \in {224, 238}
      [] OpClass(op) \in {5, 9} -> OpN(op) = 0
      [] OTHER -> Known(op)

\* C31 as stated: a step that fetches a word outside the documented patterns
\* (among them 5xyN and 9xyN with N # 0, 0nE0 and 0nEE with n # 0) reports it
\* as unknown and executes no operation: only the timers tick.
C31_DecodeExact ==
    [][Step /\ Running /\ FetchOk(chip) /\ ~Documented(Cur) =>
        /\ unknown'
        /\ chip' = [chip EXCEPT
                       !.delay_timer = IF @ > 0 THEN @ - 1 ELSE 0,
                       !.sound_timer = IF @ > 0 THEN @ - 1 ELSE 0]]_vars

----------------------------------------------------------------------------
(* The flag register as an operand *)

\* C32 as stated: SUB (8xy5) and SUBN (8xy7) with y = 15 and x # 15 leave
\* Vx = (Vx - VF) mod 256 and Vx = (VF - Vx) mod 256, with VF the value the
\* flag register held before the instruction.
C32_FlagAsSource ==
    [][Step /\ (ExecutesAlu(5) \/ ExecutesAlu(7)) /\ OpY(Cur) = 15 /\ OpX(Cur) # 15 =>
        LET x == OpX(Cur)
            a == chip.V[OpX(Cur)]
            vf == chip.V[15]
        IN  /\ ExecutesAlu(5) => chip'.V[x] = (a - vf) % 256
            /\ ExecutesAlu(7) => chip'.V[x] = (vf - a) % 256]_vars

\* C33 as stated, for the draws whose set sprite bits all lie inside the
\* framebuffer when placed at the position the registers held before the
\* instruction: Dxyn toggles exactly the pixels at column Vx + j and row
\* Vy + i of the set bits j of the sprite rows i, for every register pair,
\* x = 15 and y = 15 included.
C33_DrawPositionBeforeFlag ==
    [][Step /\ ExecutesDraw /\ ~chip'.ub
            /\ (\A i \in 0..(OpN(Cur) - 1), j \in 0..7 :
                    (MemOk(chip.I + i) /\ SpriteBit(chip.mem[chip.I + i], j)) =>
                        /\ chip.V[OpX(Cur)] + j < CHIP8_DISPLAY_WIDTH
                        /\ chip.V[OpY(Cur)] + i < CHIP8_DISPLAY_HEIGHT) =>
        LET vx == chip.V[OpX(Cur)]
            vy == chip.V[OpY(Cur)]
            covered(b) ==
                \E i \in 0..(OpN(Cur) - 1), j \in 0..7 :
                    /\ MemOk(chip.I + i)
                    /\ SpriteBit(chip.mem[chip.I + i], j)
                    /\ b = (vy + i) * CHIP8_DISPLAY_WIDTH + vx + j
        IN  \A b \in 0..(DisplaySize - 1) :
                chip'.display[b] =
                    (IF covered(b) THEN 1 - chip.display[b] ELSE chip.display[b])]_vars

\* C34 as stated: whatever Vx, Vy, the height and the sprite bytes (read from
\* inside memory), every framebuffer cell a Dxyn reads or toggles has its
\* index in 0..2047, and the step changes nothing but framebuffer pixels, VF
\* and pc (and the timers, by the tick).
C34_DrawInsideFramebuffer ==
    [][Step /\ ExecutesDraw /\ (\A i \in 0..(OpN(Cur) - 1) : MemOk(chip.I + i)) =>
        /\ DrawOobReads(chip, OpX(Cur), OpY(Cur), OpN(Cur)) = 0
        /\ ~chip'.ub
        /\ chip' = [chip EXCEPT !.display = chip'.display,
                                !.V[15] = chip'.V[15],
                                !.pc = chip'.pc,
                                !.delay_timer = chip'.delay_timer,
                                !.sound_timer = chip'.sound_timer]]_vars

----------------------------------------------------------------------------
(* Skips *)

\* the six skips of the instruction list
IsSkip(op) ==
    \/ OpClass(op) \in {3, 4}
    \/ OpClass(op) \in {5, 9} /\ OpN(op) = 0
    \/ OpClass(op) = 14 /\ OpKK(op) \in {158, 161}

\* the other skip of the pair: 3xkk and 4xkk, 5xy0 and 9xy0, Ex9E and ExA1
Complement(op) ==
    CASE OpClass(op) = 3 -> op + 4096
      [] OpClass(op) = 4 -> op - 4096
      [] OpClass(op) = 5 -> op + 4 * 4096
      [] OpClass(op) = 9 -> op - 4 * 4096
      [] OpKK(op) = 158 -> op + 3
      [] OTHER -> op - 3

\* C35 as stated: the key state Ex9E and ExA1 read has its index Vx in
\* 0..15, for every value of Vx.
C35_KeyTestIndex ==
    [][Step /\ Running /\ FetchOk(chip)
            /\ OpClass(Cur) = 14 /\ OpKK(Cur) \in {158, 161} =>
        chip.V[OpX(Cur)] \in 0..15]_vars

\* C36: each skip advances pc by 4 iff its condition holds and by 2
\* otherwise (3xkk: Vx = kk; 4xkk: Vx # kk; 5xy0: Vx = Vy; 9xy0: Vx # Vy;
\* Ex9E: key Vx down; ExA1: key Vx up, for Vx in 0..15) and changes nothing
\* else but the timers; of the two skips of a pair, executed from the same
\* state, exactly one advances by 4.
C36_Skips ==
    [][Step /\ Running /\ FetchOk(chip) /\ IsSkip(Cur)
            /\ (OpClass(Cur) = 14 => chip.V[OpX(Cur)] \in 0..15) =>
        LET vx == chip.V[OpX(Cur)]
            vy == chip.V[OpY(Cur)]
            cond == CASE OpClass(Cur) = 3 -> vx = OpKK(Cur)
                      [] OpClass(Cur) = 4 -> vx # OpKK(Cur)
                      [] OpClass(Cur) = 5 -> vx = vy
                      [] OpClass(Cur) = 9 -> vx # vy
                      [] OpKK(Cur) = 158 -> chip.keypad[vx] # 0
                      [] OTHER -> chip.keypad[vx] = 0
            other == Dispatch(chip, Complement(Cur), NoOracle)
        IN  /\ chip'.pc = chip.pc + (IF cond THEN 4 ELSE 2)
            /\ chip' = [chip EXCEPT !.pc = chip'.pc,
                                    !.delay_timer = chip'.delay_timer,
                                    !.sound_timer = chip'.sound_timer]
            /\ other.pc \in {chip.pc + 2, chip.pc + 4}
            /\ (chip'.pc = chip.pc + 4) # (other.pc = chip.pc + 4)]_vars

\* E09E has executed with V0 = 1 while key 1 was down, and skipped
C36_SkipsWitness ==
    /\ opcode = OpXKK(14, 0, 158)
    /\ chip.V[0] = 1
    /\ chip.keypad[1] = 1
    /\ chip.pc = At(5)
    /\ ~chip.ub

----------------------------------------------------------------------------
(* Timer writes and the key-wait within the cycle *)

\* C37: the tick runs after the dispatch of the same step: a step executing
\* Fx15 with Vx = v leaves the delay timer at max(v - 1, 0), a step executing
\* Fx18 with Vx = 1 raises the tone request itself and leaves the sound timer
\* at 0, and Fx07 copies the delay timer as it was before the tick of its
\* step.
C37_TimerWriteTicked ==
    [][Step /\ Running /\ FetchOk(chip) /\ OpClass(Cur) = 15 =>
        LET x == OpX(Cur)
            v == chip.V[OpX(Cur)]
        IN  /\ OpKK(Cur) = 21 =>
                  chip'.delay_timer = (IF v - 1 > 0 THEN v - 1 ELSE 0)
            /\ (OpKK(Cur) = 24 /\ v = 1) => (beep' /\ chip'.sound_timer = 0)
            /\ OpKK(Cur) = 7 =>
                  /\ chip'.V[x] = chip.delay_timer
                  /\ chip'.delay_timer =
                        (IF chip.delay_timer > 0 THEN chip.delay_timer - 1 ELSE 0)]_vars

\* the delay timer was loaded with 4, which left 3; the load of the sound
\* timer left 2; F207 then read 2 and its own tick left 1
C37_TimerWriteTickedWitness ==
    /\ opcode = OpXKK(15, 2, 7)
    /\ chip.V[0] = 4
    /\ chip.V[2] = 2
    /\ chip.delay_timer = 1
    /\ chip.pc = At(5)

----------------------------------------------------------------------------
(* Register blocks *)

\* C39: with the block I..I+x inside memory, Fx55 leaves mem[I + i] = V[i]
\* for i in 0..x, every other memory byte and every V register unchanged;
\* Fx65 leaves V[i] = mem[I + i] for i in 0..x, V[x+1..15] and all memory
\* unchanged; both leave I = I + x + 1 and pc advanced by 2.
C39_RegisterBlock ==
    [][Step /\ Running /\ FetchOk(chip)
            /\ OpClass(Cur) = 15 /\ OpKK(Cur) \in {85, 101}
            /\ chip.I + OpX(Cur) <= 4095 =>
        LET x == OpX(Cur)
            i0 == chip.I
        IN  /\ OpKK(Cur) = 85 =>
                  /\ chip'.mem = [a \in 0..4095 |->
                                    IF a >= i0 /\ a <= i0 + x
                                    THEN chip.V[a - i0] ELSE chip.mem[a]]
                  /\ chip'.V = chip.V
            /\ OpKK(Cur) = 101 =>
                  /\ chip'.V = [r \in 0..15 |->
                                  IF r <= x THEN chip.mem[i0 + r] ELSE chip.V[r]]
                  /\ chip'.mem = chip.mem
            /\ chip'.I = i0 + x + 1
            /\ chip'.pc = chip.pc + 2]_vars

\* F355 has stored V0..V3 = 200, 217, 234, 251 at 4092..4095, the last
\* bytes of memory; the byte below holds 0 still, and I is 4096
C39_RegisterBlockWitness ==
    /\ opcode = OpXKK(15, 3, 85)
    /\ chip.mem[4091] = 0
    /\ chip.mem[4092] = 200 /\ chip.mem[4095] = 251
    /\ chip.V[3] = 251 /\ chip.V[4] = 12
    /\ chip.I = 4096
    /\ chip.pc = At(18)
    /\ ~chip.ub

\* C40: with I = a and a + x < 4096, after Fx55, load-immediates that
\* overwrite V0..Vx (here all of V0..V15, each with another value), Annn with
\* nnn = a and Fx65 with the same x, V0..Vx hold the values they held at the
\* Fx55 again, for every x in 0..15. (Register i is loaded from byte 2i + 2
\* of the image before the Fx55 at word 17 and overwritten with 255 minus
\* that; the Fx65 is word 35.)
C40_StoreLoadRoundTrip ==
    [][Step /\ Running /\ FetchOk(chip)
            /\ OpClass(Cur) = 15 /\ OpKK(Cur) = 101
            /\ Len(file) = 74 /\ chip.pc = At(35)
            /\ WordAt(At(17)) = OpXKK(15, OpX(Cur), 85)
            /\ WordAt(At(34)) = WordAt(At(16))
            /\ OpNNN(WordAt(At(16))) + OpX(Cur) < 4096 =>
        \A i \in 0..OpX(Cur) :
            /\ chip.V[i] = 255 - file[2 * i + 2]
            /\ chip'.V[i] = file[2 * i + 2]]_vars

\* the round trip of V0..V3 through 4092..4095 is done: V3 is 52 again, and
\* V4, which Fx65 did not load, keeps the value it was overwritten with
C40_StoreLoadRoundTripWitness ==
    /\ opcode = OpXKK(15, 3, 101)
    /\ chip.pc = At(36)
    /\ chip.V[0] = 1 /\ chip.V[3] = 52
    /\ chip.V[4] = 255 - 69
    /\ chip.I = 4096
    /\ ~chip.ub

====
